---- MODULE Spec2Model ----
(***************************************************************************)
(* Model of the two programs of the repository:                            *)
(*   ejercicio1_tienda_online_refactorizado.py   (program "tienda")        *)
(*   ejercicio2_gestor_documentos_refactorizado.py (program "reportes")    *)
(* Each file is a program of its own (neither imports the other); a        *)
(* behaviour of the model is a run of one of them.                         *)
(***************************************************************************)
EXTENDS Integers, Sequences, FiniteSets, TLC

VARIABLES
    program,               \* which of the two files is running
    loaded,                \* registration statements of the module body executed so far
    notifiers,             \* NotifierFactory._notifiers
    generators,            \* ReportGeneratorFactory._generators
    formatters,            \* FormatterFactory._formatters
    methods,               \* DeliveryFactory._methods
    notification_history,  \* OrderNotificationSystem._notification_history, per instance
    reports_generated,     \* ReportSystem._reports_generated, per instance
    clock,                 \* the wall clock read by datetime.now()
    pc,                    \* position of the (single) thread of control
    op,                    \* the call in progress, or the last one completed
    args,                  \* its arguments
    locals,                \* its local variables
    console,               \* what it has printed so far
    constructed,           \* the strategy instances it has constructed so far
    ret,                   \* its return value
    raised,                \* the exception it let escape
    entry                  \* the histories when it was entered

vars == <<program, loaded, notifiers, generators, formatters, methods,
          notification_history, reports_generated, clock, pc, op, args, locals,
          console, constructed, ret, raised, entry>>

registries == <<notifiers, generators, formatters, methods>>
histories == <<notification_history, reports_generated>>

-----------------------------------------------------------------------------
(* Bounds of the model *)

MaxHistory == 2     \* records kept over all instances of a program
MaxClock == 1       \* last instant of the wall clock

-----------------------------------------------------------------------------
(* Python values *)

None == [kind |-> "None"]
NoError == [type |-> "None", msg |-> <<>>]
NoInstance == [class |-> "None"]

ValueError(prefix, key) == [type |-> "ValueError", msg |-> <<prefix, key>>]

\* A dict keeps its keys in insertion order; d[k] = v on a present key
\* replaces the value in place, on an absent key appends the item.
EmptyDict == <<>>

DictKeys(d) == [i \in 1..Len(d) |-> d[i].key]

DictHas(d, k) == \E i \in 1..Len(d) : d[i].key = k

DictGet(d, k) == d[CHOOSE i \in 1..Len(d) : d[i].key = k].value

\* Faulty variant: assigning to a present key moves the item to the end
DictSetMovesToEnd(d, k, v) ==
    Append(SelectSeq(d, LAMBDA item : item.key # k), [key |-> k, value |-> v])

DictSet(d, k, v) ==
    IF DictHas(d, k)
    THEN [i \in 1..Len(d) |-> IF d[i].key = k THEN [key |-> k, value |-> v] ELSE d[i]]
    ELSE Append(d, [key |-> k, value |-> v])

RECURSIVE SumLen(_, _)
SumLen(f, S) ==
    IF S = {} THEN 0
    ELSE LET x == CHOOSE y \in S : TRUE IN Len(f[x]) + SumLen(f, S \ {x})

-----------------------------------------------------------------------------
(* ejercicio1: entities *)

Customer(name, email, phone, device_id) ==
    [name |-> name, email |-> email, phone |-> phone, device_id |-> device_id]

Order(order_id, customer, total) ==
    [order_id |-> order_id, customer |-> customer, total |-> total]

NotificationRecord(type, recipient, message, timestamp) ==
    [type |-> type, recipient |-> recipient, message |-> message, timestamp |-> timestamp]

\* datetime.now().isoformat()
IsoFormat(t) == ToString([format |-> "isoformat", at |-> t])

\* The orders the clients pass: to process_order, and field by field to the facade
Orders ==
    { Order("ORD-001", Customer("Ana", "ana@email.com", "+34-600-123", "DEVICE-ABC"), "150.5") }

FacadeOrders ==
    { Order("ORD-003", Customer("Maria", "maria@email.com", "+34-600-555", "DEVICE-LMN"), "50.0") }

-----------------------------------------------------------------------------
(* ejercicio1: the notifiers (Strategy) *)

NotifierClasses == {"EmailNotifier", "SMSNotifier", "PushNotifier", "WhatsAppNotifier"}

EmailNotifier_get_type == "email"
SMSNotifier_get_type == "sms"
PushNotifier_get_type == "push"
\* Faulty variant: get_type copied from SMSNotifier and not edited
WhatsAppNotifier_get_type_copied == "sms"

WhatsAppNotifier_get_type == "whatsapp"

Notifier_get_type(cls) ==
    CASE cls = "EmailNotifier" -> EmailNotifier_get_type
      [] cls = "SMSNotifier" -> SMSNotifier_get_type
      [] cls = "PushNotifier" -> PushNotifier_get_type
      [] cls = "WhatsAppNotifier" -> WhatsAppNotifier_get_type

\* Each send returns the record and prints one event.
EmailNotifier_send(order, now) ==
    LET message == <<"Estimado ", order.customer.name, ", su pedido #", order.order_id,
                     " por $", order.total, " ha sido confirmado.">>
        recipient == order.customer.email
    IN [printed |-> [kind |-> "sent", channel |-> "EMAIL", to |-> recipient, message |-> message],
        record |-> NotificationRecord(EmailNotifier_get_type, recipient, message, IsoFormat(now))]

SMSNotifier_send(order, now) ==
    LET message == <<"Pedido #", order.order_id, " confirmado. Total: $", order.total,
                     ". Gracias por su compra!">>
        recipient == order.customer.phone
    IN [printed |-> [kind |-> "sent", channel |-> "SMS", to |-> recipient, message |-> message],
        record |-> NotificationRecord(SMSNotifier_get_type, recipient, message, IsoFormat(now))]

\* Faulty variant: send copied from SMSNotifier, the recipient still the phone
PushNotifier_send_to_phone(order, now) ==
    LET message == <<"Pedido confirmado! #", order.order_id, " - $", order.total>>
        recipient == order.customer.phone
    IN [printed |-> [kind |-> "sent", channel |-> "PUSH", to |-> recipient, message |-> message],
        record |-> NotificationRecord(PushNotifier_get_type, recipient, message, IsoFormat(now))]

PushNotifier_send(order, now) ==
    LET message == <<"Pedido confirmado! #", order.order_id, " - $", order.total>>
        recipient == order.customer.device_id
    IN [printed |-> [kind |-> "sent", channel |-> "PUSH", to |-> recipient, message |-> message],
        record |-> NotificationRecord(PushNotifier_get_type, recipient, message, IsoFormat(now))]

WhatsAppNotifier_send(order, now) ==
    LET message == <<"*Pedido Confirmado* Pedido: #", order.order_id, " Total: $", order.total,
                     " Gracias por tu compra, ", order.customer.name, "!">>
        recipient == order.customer.phone
    IN [printed |-> [kind |-> "sent", channel |-> "WHATSAPP", to |-> recipient, message |-> message],
        record |-> NotificationRecord(WhatsAppNotifier_get_type, recipient, message, IsoFormat(now))]

Notifier_send(cls, order, now) ==
    CASE cls = "EmailNotifier" -> EmailNotifier_send(order, now)
      [] cls = "SMSNotifier" -> SMSNotifier_send(order, now)
      [] cls = "PushNotifier" -> PushNotifier_send(order, now)
      [] cls = "WhatsAppNotifier" -> WhatsAppNotifier_send(order, now)

\* Notifiers a client writes and registers: send of the first refuses the
\* order with a ValueError, send of the second fails with another exception
ClientNotifierClasses == {"StrictNotifier", "OfflineNotifier"}

\* The exception send raises, if it raises
Notifier_send_raises(cls, order) ==
    CASE cls = "StrictNotifier" -> [type |-> "ValueError", msg |-> << "Pedido no valido: ", order.order_id >>]
      [] cls = "OfflineNotifier" -> [type |-> "ConnectionError", msg |-> << "Sin conexion" >>]
      [] OTHER -> NoError

-----------------------------------------------------------------------------
(* ejercicio1: NotifierFactory *)

\* Faulty variant: setdefault: a key already registered keeps its class
NotifierFactory_register_first_wins(notifier_type, notifier_class) ==
    notifiers' = IF DictHas(notifiers, notifier_type) THEN notifiers
                 ELSE DictSet(notifiers, notifier_type, notifier_class)

NotifierFactory_register(notifier_type, notifier_class) ==
    notifiers' = DictSet(notifiers, notifier_type, notifier_class)

\* The outcome of a call: the exception raised, or the instance constructed.
NotifierFactory_create(notifier_type) ==
    IF ~DictHas(notifiers, notifier_type)
    THEN [raised |-> ValueError("Tipo de notificador desconocido: ", notifier_type),
          instance |-> NoInstance]
    ELSE [raised |-> NoError, instance |-> [class |-> DictGet(notifiers, notifier_type)]]

NotifierFactory_get_available_types == DictKeys(notifiers)

\* The registration statements the module executes when it is loaded
NotifierRegistrations ==
    << [factory |-> "NotifierFactory", key |-> "email", class |-> "EmailNotifier"],
       [factory |-> "NotifierFactory", key |-> "sms", class |-> "SMSNotifier"],
       [factory |-> "NotifierFactory", key |-> "push", class |-> "PushNotifier"],
       [factory |-> "NotifierFactory", key |-> "whatsapp", class |-> "WhatsAppNotifier"] >>

-----------------------------------------------------------------------------
(* ejercicio1: OrderNotificationSystem *)

\* The instances: one built by the client, one owned by the NotificationFacade
NotificationSystems == {"system", "facade._system"}

OrderNotificationSystem_init == [s \in NotificationSystems |-> <<>>]

\* _print_order_header
PrintOrderHeader(order) ==
    [kind |-> "header", order_id |-> order.order_id, name |-> order.customer.name,
     total |-> order.total]

\* get_notification_history
OrderNotificationSystem_get_notification_history(self) ==
    [i \in 1..Len(notification_history[self]) |->
        [type |-> notification_history[self][i].type,
         to |-> notification_history[self][i].recipient,
         message |-> notification_history[self][i].message,
         timestamp |-> notification_history[self][i].timestamp]]

-----------------------------------------------------------------------------
(* ejercicio2: entities *)

ReportRecord(report_type, output_format, delivery_method, timestamp) ==
    [report_type |-> report_type, output_format |-> output_format,
     delivery_method |-> delivery_method, timestamp |-> timestamp]

\* Text is a sequence of string tokens; str(x) of a value is one token.
Str(x) == ToString(x)

\* datetime.now().strftime(fmt)
Strftime(t, fmt) == Str([format |-> fmt, at |-> t])

\* data.get(key, default)
Get(data, key, default) == IF key \in DOMAIN data THEN data[key] ELSE default

\* f"{x:.2f}"
Format2f(x) == Str([fmt |-> ".2f", value |-> x])

\* sum(f(item) for item in items): a left fold from 0
RECURSIVE SumOver(_, _)
SumOver(items, field) ==
    IF items = <<>> THEN 0
    ELSE SumOver(SubSeq(items, 1, Len(items) - 1), field) + items[Len(items)][field]

\* A Python float (an IEEE double), over the values huge * 1e308 + units:
\* whole units are exact, 1e308 absorbs any number of units added to it, and
\* twice 1e308 is above the largest double.
Float(huge, units) == [class |-> "finite", huge |-> huge, units |-> units]
Inf(sign) == [class |-> "inf", sign |-> sign]
NaN == [class |-> "nan"]

\* x + y on floats, rounded as the double addition rounds it
Float_add(x, y) ==
    IF x.class = "nan" \/ y.class = "nan" THEN NaN
    ELSE IF x.class = "inf"
         THEN IF y.class = "inf" /\ y.sign # x.sign THEN NaN ELSE x
    ELSE IF y.class = "inf" THEN y
    ELSE LET huge == x.huge + y.huge
             units == x.units + y.units
         IN IF huge = 0 THEN Float(0, units)
            ELSE IF huge > 1 THEN Inf(1)
            ELSE IF huge < -1 THEN Inf(-1)
            ELSE Float(huge, 0)

\* sum(item[field] for item in items) over floats: a left fold from 0
RECURSIVE Float_sum(_, _)
Float_sum(items, field) ==
    IF items = <<>> THEN Float(0, 0)
    ELSE Float_add(Float_sum(SubSeq(items, 1, Len(items) - 1), field), items[Len(items)][field])

\* "".join of the lines built for each item
RECURSIVE Concat(_)
Concat(texts) ==
    IF texts = <<>> THEN <<>> ELSE Head(texts) \o Concat(Tail(texts))


-----------------------------------------------------------------------------
(* ejercicio2: report generators (Strategy + Template Method) *)

GeneratorClasses == {"SalesReportGenerator", "InventoryReportGenerator",
                     "FinancialReportGenerator", "AuditReportGenerator"}

ReportGenerator_get_type(cls) ==
    CASE cls = "SalesReportGenerator" -> "sales"
      [] cls = "InventoryReportGenerator" -> "inventory"
      [] cls = "FinancialReportGenerator" -> "financial"
      [] cls = "AuditReportGenerator" -> "audit"

ReportGenerator_get_title(cls) ==
    CASE cls = "SalesReportGenerator" -> "REPORTE DE VENTAS"
      [] cls = "InventoryReportGenerator" -> "REPORTE DE INVENTARIO"
      [] cls = "FinancialReportGenerator" -> "REPORTE FINANCIERO"
      [] cls = "AuditReportGenerator" -> "REPORTE DE AUDITORIA"

Rule60 == "============================================================"
Dash60 == "------------------------------------------------------------"

ReportGenerator_build_header(cls, now) ==
    << Rule60, "\n", "           ", ReportGenerator_get_title(cls), "\n", Rule60, "\n",
       "Fecha de generacion: ", Strftime(now, "%Y-%m-%d %H:%M:%S"), "\n\n" >>

ReportGenerator_build_footer == << "\n", Rule60, "\n" >>

\* Faulty variant: the amounts are added up from the last sale to the first
SalesReportGenerator_build_body_reversed(data) ==
    LET sales == Get(data, "sales", <<>>)
        period == Get(data, "period", "No especificado")
        total_sales == Float_sum([i \in 1..Len(sales) |-> sales[Len(sales) + 1 - i]], "amount")
        Line(sale) == << "  * Producto: ", sale.product, " - $", Format2f(sale.amount), "\n" >>
    IN << "Total de ventas: $", Format2f(total_sales), "\n",
          "Numero de transacciones: ", Str(Len(sales)), "\n",
          "Periodo: ", period, "\n\n",
          "Detalle de ventas:\n", Dash60, "\n" >> \o Concat([i \in 1..Len(sales) |-> Line(sales[i])])

SalesReportGenerator_build_body(data) ==
    LET sales == Get(data, "sales", <<>>)
        period == Get(data, "period", "No especificado")
        total_sales == Float_sum(sales, "amount")
        Line(sale) == << "  * Producto: ", sale.product, " - $", Format2f(sale.amount), "\n" >>
    IN << "Total de ventas: $", Format2f(total_sales), "\n",
          "Numero de transacciones: ", Str(Len(sales)), "\n",
          "Periodo: ", period, "\n\n",
          "Detalle de ventas:\n", Dash60, "\n" >> \o Concat([i \in 1..Len(sales) |-> Line(sales[i])])

InventoryReportGenerator_build_body(data) ==
    LET items == Get(data, "items", <<>>)
        total_items == SumOver(items, "quantity")
        categories == Cardinality({items[i].category : i \in 1..Len(items)})
        Line(item) == << "  * ", item.name, " (", item.category, "): ",
                         Str(item.quantity), " unidades\n" >>
    IN << "Total de productos: ", Str(total_items), "\n",
          "Categorias: ", Str(categories), "\n\n",
          "Inventario actual:\n", Dash60, "\n" >> \o Concat([i \in 1..Len(items) |-> Line(items[i])])

\* Faulty variant: the first test is balance >= 0
FinancialReportGenerator_build_body_ge(data) ==
    LET income == Get(data, "income", 0)
        expenses == Get(data, "expenses", 0)
        balance == income - expenses
    IN << "Ingresos: $", Format2f(income), "\n",
          "Gastos: $", Format2f(expenses), "\n",
          "Balance: $", Format2f(balance), "\n" >>
       \o (IF balance >= 0 THEN << "\nEstado: POSITIVO\n" >>
           ELSE IF balance < 0 THEN << "\nEstado: NEGATIVO\n" >>
           ELSE << "\nEstado: NEUTRO\n" >>)

FinancialReportGenerator_build_body(data) ==
    LET income == Get(data, "income", 0)
        expenses == Get(data, "expenses", 0)
        balance == income - expenses
    IN << "Ingresos: $", Format2f(income), "\n",
          "Gastos: $", Format2f(expenses), "\n",
          "Balance: $", Format2f(balance), "\n" >>
       \o (IF balance > 0 THEN << "\nEstado: POSITIVO\n" >>
           ELSE IF balance < 0 THEN << "\nEstado: NEGATIVO\n" >>
           ELSE << "\nEstado: NEUTRO\n" >>)

AuditReportGenerator_build_body(data) ==
    LET actions == Get(data, "actions", <<>>)
        Line(action) == << "  * [", action.timestamp, "] ", action.user, ": ",
                           action.action, "\n" >>
    IN << "Total de acciones auditadas: ", Str(Len(actions)), "\n\n",
          "Registro de actividades:\n", Dash60, "\n" >> \o Concat([i \in 1..Len(actions) |-> Line(actions[i])])

ReportGenerator_build_body(cls, data) ==
    CASE cls = "SalesReportGenerator" -> SalesReportGenerator_build_body(data)
      [] cls = "InventoryReportGenerator" -> InventoryReportGenerator_build_body(data)
      [] cls = "FinancialReportGenerator" -> FinancialReportGenerator_build_body(data)
      [] cls = "AuditReportGenerator" -> AuditReportGenerator_build_body(data)

\* Faulty variant: the audit generator overrides generate and leaves the header out
ReportGenerator_generate_overridden(cls, data, now) ==
    IF cls = "AuditReportGenerator"
    THEN ReportGenerator_build_body(cls, data) \o ReportGenerator_build_footer
    ELSE ReportGenerator_build_header(cls, now)
            \o ReportGenerator_build_body(cls, data)
            \o ReportGenerator_build_footer

\* The template method
ReportGenerator_generate(cls, data, now) ==
    ReportGenerator_build_header(cls, now)
        \o ReportGenerator_build_body(cls, data)
        \o ReportGenerator_build_footer

-----------------------------------------------------------------------------
(* ejercicio2: output formatters (Strategy) *)

FormatterClasses == {"PDFFormatter", "ExcelFormatter", "HTMLFormatter"}

OutputFormatter_get_format_type(cls) ==
    CASE cls = "PDFFormatter" -> "pdf"
      [] cls = "ExcelFormatter" -> "excel"
      [] cls = "HTMLFormatter" -> "html"

OutputFormatter_get_file_extension(cls) ==
    CASE cls = "PDFFormatter" -> "pdf"
      [] cls = "ExcelFormatter" -> "xlsx"
      [] cls = "HTMLFormatter" -> "html"

PDFFormatter_format(content) == << "[PDF FORMAT]\n" >> \o content \o << "\n[END PDF]" >>

ExcelFormatter_format(content) == << "[EXCEL FORMAT]\n" >> \o content \o << "\n[END EXCEL]" >>

HTMLFormatter_format(content) == << "<html><body><pre>" >> \o content \o << "</pre></body></html>" >>

OutputFormatter_format(cls, content) ==
    CASE cls = "PDFFormatter" -> PDFFormatter_format(content)
      [] cls = "ExcelFormatter" -> ExcelFormatter_format(content)
      [] cls = "HTMLFormatter" -> HTMLFormatter_format(content)

\* What format prints before it returns
OutputFormatter_printed(cls) ==
    [kind |-> "format",
     text |-> CASE cls = "PDFFormatter" -> "Generando reporte en formato PDF..."
                [] cls = "ExcelFormatter" -> "Generando reporte en formato Excel..."
                [] cls = "HTMLFormatter" -> "Generando reporte en formato HTML..."]

-----------------------------------------------------------------------------
(* ejercicio2: delivery methods (Strategy) *)

DeliveryClasses == {"EmailDelivery", "DownloadDelivery", "CloudDelivery"}

DeliveryMethod_get_method_type(cls) ==
    CASE cls = "EmailDelivery" -> "email"
      [] cls = "DownloadDelivery" -> "download"
      [] cls = "CloudDelivery" -> "cloud"

\* __init__ with its default arguments
DeliveryMethod_init(cls) ==
    CASE cls = "EmailDelivery" -> [class |-> cls, recipient |-> "admin@company.com"]
      [] cls = "DownloadDelivery" -> [class |-> cls]
      [] cls = "CloudDelivery" -> [class |-> cls, cloud_url |-> "https://cloud.company.com/reports"]

\* deliver returns nothing; its effect is what it prints.  The event keeps
\* the arguments of the invocation beside the printed text.
EmailDelivery_deliver(self, content, report_type, file_extension) ==
    << "Enviando reporte por email...",
       "   Destinatario: ", self.recipient,
       "   Adjunto: report_", report_type, ".", file_extension >>

DownloadDelivery_deliver(self, content, report_type, file_extension, now) ==
    << "Reporte disponible para descarga: ", "report_", report_type, "_",
       Strftime(now, "%Y%m%d_%H%M%S"), ".", file_extension >>

CloudDelivery_deliver(self, content, report_type, file_extension) ==
    << "Subiendo reporte a la nube...",
       "   URL: ", self.cloud_url, "/", report_type, ".", file_extension >>

DeliveryMethod_deliver(self, content, report_type, file_extension, now) ==
    [kind |-> "deliver", self |-> self, content |-> content, report_type |-> report_type,
     file_extension |-> file_extension,
     text |-> CASE self.class = "EmailDelivery" ->
                     EmailDelivery_deliver(self, content, report_type, file_extension)
                [] self.class = "DownloadDelivery" ->
                     DownloadDelivery_deliver(self, content, report_type, file_extension, now)
                [] self.class = "CloudDelivery" ->
                     CloudDelivery_deliver(self, content, report_type, file_extension)]

-----------------------------------------------------------------------------
(* ejercicio2: the three factories *)

ReportGeneratorFactory_register(report_type, generator_class) ==
    generators' = DictSet(generators, report_type, generator_class)

ReportGeneratorFactory_create(report_type) ==
    IF ~DictHas(generators, report_type)
    THEN [raised |-> ValueError("Tipo de reporte desconocido: ", report_type),
          instance |-> NoInstance]
    ELSE [raised |-> NoError, instance |-> [class |-> DictGet(generators, report_type)]]

FormatterFactory_register(format_type, formatter_class) ==
    formatters' = DictSet(formatters, format_type, formatter_class)

FormatterFactory_create(format_type) ==
    IF ~DictHas(formatters, format_type)
    THEN [raised |-> ValueError("Formato desconocido: ", format_type),
          instance |-> NoInstance]
    ELSE [raised |-> NoError, instance |-> [class |-> DictGet(formatters, format_type)]]

DeliveryFactory_register(method_type, method_class) ==
    methods' = DictSet(methods, method_type, method_class)

\* Faulty variant: a miss falls back to a default class instead of raising
DeliveryFactory_create_default(method_type) ==
    IF ~DictHas(methods, method_type)
    THEN [raised |-> NoError, instance |-> DeliveryMethod_init("EmailDelivery")]
    ELSE [raised |-> NoError, instance |-> DeliveryMethod_init(DictGet(methods, method_type))]

DeliveryFactory_create(method_type) ==
    IF ~DictHas(methods, method_type)
    THEN [raised |-> ValueError("Metodo de entrega desconocido: ", method_type),
          instance |-> NoInstance]
    ELSE [raised |-> NoError, instance |-> DeliveryMethod_init(DictGet(methods, method_type))]

\* The registration statements the module executes when it is loaded
ReportRegistrations ==
    << [factory |-> "ReportGeneratorFactory", key |-> "sales", class |-> "SalesReportGenerator"],
       [factory |-> "ReportGeneratorFactory", key |-> "inventory", class |-> "InventoryReportGenerator"],
       [factory |-> "ReportGeneratorFactory", key |-> "financial", class |-> "FinancialReportGenerator"],
       [factory |-> "FormatterFactory", key |-> "pdf", class |-> "PDFFormatter"],
       [factory |-> "FormatterFactory", key |-> "excel", class |-> "ExcelFormatter"],
       [factory |-> "FormatterFactory", key |-> "html", class |-> "HTMLFormatter"],
       [factory |-> "DeliveryFactory", key |-> "email", class |-> "EmailDelivery"],
       [factory |-> "DeliveryFactory", key |-> "download", class |-> "DownloadDelivery"],
       [factory |-> "DeliveryFactory", key |-> "cloud", class |-> "CloudDelivery"],
       [factory |-> "ReportGeneratorFactory", key |-> "audit", class |-> "AuditReportGenerator"] >>

-----------------------------------------------------------------------------
(* ejercicio2: ReportSystem *)

\* The instances: one built by the client, one owned by the ReportFacade
ReportSystems == {"system", "facade._system"}

ReportSystem_init == [s \in ReportSystems |-> <<>>]

\* get_report_history
ReportSystem_get_report_history(self) ==
    [i \in 1..Len(reports_generated[self]) |->
        [type |-> reports_generated[self][i].report_type,
         format |-> reports_generated[self][i].output_format,
         delivery |-> reports_generated[self][i].delivery_method,
         timestamp |-> reports_generated[self][i].timestamp]]

\* ReportFacade.get_available_options
ReportFacade_get_available_options ==
    [report_types |-> DictKeys(generators),
     formats |-> DictKeys(formatters),
     delivery_methods |-> DictKeys(methods)]

-----------------------------------------------------------------------------
(* The state after the interpreter has started, before the module body runs *)

NoLocals == [i |-> 0]
NoArgs == [self |-> "module"]

Init ==
    /\ program \in {"tienda", "reportes"}
    /\ loaded = 0
    /\ notifiers = EmptyDict
    /\ generators = EmptyDict
    /\ formatters = EmptyDict
    /\ methods = EmptyDict
    /\ notification_history = OrderNotificationSystem_init
    /\ reports_generated = ReportSystem_init
    /\ clock = 0
    /\ pc = "load"
    /\ op = "import"
    /\ args = NoArgs
    /\ locals = NoLocals
    /\ console = <<>>
    /\ constructed = <<>>
    /\ ret = None
    /\ raised = NoError
    /\ entry = <<>>

Registrations == IF program = "tienda" THEN NotifierRegistrations ELSE ReportRegistrations

Factories ==
    IF program = "tienda" THEN {"NotifierFactory"}
    ELSE {"ReportGeneratorFactory", "FormatterFactory", "DeliveryFactory"}

\* The dict of a factory
Registry(factory) ==
    CASE factory = "NotifierFactory" -> notifiers
      [] factory = "ReportGeneratorFactory" -> generators
      [] factory = "FormatterFactory" -> formatters
      [] factory = "DeliveryFactory" -> methods

\* Faulty variant: FormatterFactory and DeliveryFactory write to the same dict
Factory_register_shared(factory, key, class) ==
    CASE factory = "NotifierFactory" ->
            NotifierFactory_register(key, class) /\ UNCHANGED <<generators, formatters, methods>>
      [] factory = "ReportGeneratorFactory" ->
            ReportGeneratorFactory_register(key, class) /\ UNCHANGED <<notifiers, formatters, methods>>
      [] factory = "FormatterFactory" ->
            /\ FormatterFactory_register(key, class)
            /\ DeliveryFactory_register(key, class)
            /\ UNCHANGED <<notifiers, generators>>
      [] factory = "DeliveryFactory" ->
            DeliveryFactory_register(key, class) /\ UNCHANGED <<notifiers, generators, formatters>>

Factory_register(factory, key, class) ==
    CASE factory = "NotifierFactory" ->
            NotifierFactory_register(key, class) /\ UNCHANGED <<generators, formatters, methods>>
      [] factory = "ReportGeneratorFactory" ->
            ReportGeneratorFactory_register(key, class) /\ UNCHANGED <<notifiers, formatters, methods>>
      [] factory = "FormatterFactory" ->
            FormatterFactory_register(key, class) /\ UNCHANGED <<notifiers, generators, methods>>
      [] factory = "DeliveryFactory" ->
            DeliveryFactory_register(key, class) /\ UNCHANGED <<notifiers, generators, formatters>>

Factory_create(factory, key) ==
    CASE factory = "NotifierFactory" -> NotifierFactory_create(key)
      [] factory = "ReportGeneratorFactory" -> ReportGeneratorFactory_create(key)
      [] factory = "FormatterFactory" -> FormatterFactory_create(key)
      [] factory = "DeliveryFactory" -> DeliveryFactory_create(key)

\* A call that runs in one step and returns r (or raises e)
Returns(name, a, r) ==
    /\ op' = name
    /\ args' = a
    /\ ret' = r
    /\ raised' = NoError
    /\ pc' = "idle"

\* A new call starts with no local variables and nothing printed
Fresh ==
    /\ locals' = NoLocals
    /\ console' = <<>>
    /\ entry' = <<>>

Raises(e) ==
    /\ ret' = None
    /\ raised' = e
    /\ pc' = "idle"

-----------------------------------------------------------------------------
(* The module body: the registration statements, in order *)

LoadModule ==
    /\ pc = "load"
    /\ LET r == Registrations[loaded + 1] IN
        /\ Factory_register(r.factory, r.key, r.class)
        /\ op' = "register"
        /\ args' = r
    /\ loaded' = loaded + 1
    /\ pc' = IF loaded + 1 = Len(Registrations) THEN "idle" ELSE "load"
    /\ ret' = None
    /\ raised' = NoError
    /\ UNCHANGED <<program, histories, clock, locals, console, constructed, entry>>

\* datetime.now(): the clock has not gone back since it was last read
Now(t) ==
    /\ t \in clock..MaxClock
    /\ clock' = t

-----------------------------------------------------------------------------
(* Calls of the factories made by clients *)

\* What clients register after the module is loaded
LateRegistrations ==
    IF program = "tienda"
    THEN [factory : {"NotifierFactory"}, key : {"sms", "telegram"}, class : {"WhatsAppNotifier"}]
    ELSE { [factory |-> "ReportGeneratorFactory", key |-> "custom", class |-> "AuditReportGenerator"],
           [factory |-> "FormatterFactory", key |-> "pdf", class |-> "HTMLFormatter"] }

\* The keys clients ask for
KeyInputs(factory) ==
    CASE factory = "NotifierFactory" -> {"sms", "telegram"}
      [] factory = "ReportGeneratorFactory" -> {"financial", "custom"}
      [] factory = "FormatterFactory" -> {"pdf", "xml"}
      [] factory = "DeliveryFactory" -> {"cloud", "ftp"}

Register(r) ==
    /\ pc = "idle"
    /\ Factory_register(r.factory, r.key, r.class)
    /\ Returns("register", r, None)
    /\ Fresh
    /\ constructed' = <<>>
    /\ UNCHANGED <<program, loaded, histories, clock>>

Create(factory, key) ==
    /\ pc = "idle"
    /\ LET r == Factory_create(factory, key) IN
        /\ op' = "create"
        /\ args' = [factory |-> factory, key |-> key]
        /\ ret' = IF r.raised = NoError THEN [kind |-> "instance", value |-> r.instance] ELSE None
        /\ raised' = r.raised
        /\ constructed' = IF r.raised = NoError THEN <<r.instance>> ELSE <<>>
    /\ pc' = "idle"
    /\ Fresh
    /\ UNCHANGED <<program, loaded, registries, histories, clock>>

GetAvailableTypes ==
    /\ pc = "idle"
    /\ program = "tienda"
    /\ Returns("get_available_types", NoArgs, [kind |-> "list", value |-> NotifierFactory_get_available_types])
    /\ Fresh
    /\ constructed' = <<>>
    /\ UNCHANGED <<program, loaded, registries, histories, clock>>

-----------------------------------------------------------------------------
(* ejercicio1: OrderNotificationSystem.process_order, one key per step *)

\* The lists of keys clients pass
KeyLists ==
    { <<>>, << "email", "email" >>, << "telegram", "sms" >>, << "email", "telegram", "sms" >> }

NotificationRoom == SumLen(notification_history, NotificationSystems) < MaxHistory

\* Entry of process_order, from the client (name = "process_order") or from
\* the facade method `name`
ProcessOrderEnter(name, self, order, notification_types) ==
    /\ pc = "idle"
    /\ program = "tienda"
    /\ NotificationRoom
    /\ op' = name
    /\ args' = [self |-> self, order |-> order, notification_types |-> notification_types]
    /\ locals' = [i |-> 1]
    /\ console' = << PrintOrderHeader(order) >>
    /\ constructed' = <<>>
    /\ ret' = None
    /\ raised' = NoError
    /\ entry' = notification_history
    /\ pc' = "for"
    /\ UNCHANGED <<program, loaded, registries, histories, clock>>

ProcessOrder(order, notification_types) ==
    ProcessOrderEnter("process_order", "system", order, notification_types)

\* Faulty variant: a notifier type already sent in this call is not recorded again
ProcessOrderTryOnce(notifier) ==
    \E now \in 0..MaxClock :
    LET sent == Notifier_send(notifier.class, args.order, now)
        h == notification_history[args.self]
        seen == \E j \in Len(entry[args.self]) + 1..Len(h) : h[j].type = sent.record.type
    IN
    /\ Now(now)
    /\ constructed' = Append(constructed, notifier)
    /\ console' = Append(console, sent.printed)
    /\ notification_history' =
           IF seen THEN notification_history
           ELSE [notification_history EXCEPT ![args.self] = Append(@, sent.record)]
    /\ locals' = [i |-> locals.i + 1]
    /\ pc' = "for"
    /\ UNCHANGED raised

\* Faulty variant: only the create call is inside the try, so that a
\* ValueError of send leaves process_order
ProcessOrderTrySendOutside(notifier) ==
    LET e == Notifier_send_raises(notifier.class, args.order) IN
    IF e # NoError
    THEN /\ constructed' = Append(constructed, notifier)
         /\ raised' = e
         /\ pc' = "idle"
         /\ UNCHANGED <<console, locals, notification_history, clock>>
    ELSE \E now \in 0..MaxClock :
         LET sent == Notifier_send(notifier.class, args.order, now) IN
         /\ Now(now)
         /\ constructed' = Append(constructed, notifier)
         /\ console' = Append(console, sent.printed)
         /\ notification_history' =
                [notification_history EXCEPT ![args.self] = Append(@, sent.record)]
         /\ locals' = [i |-> locals.i + 1]
         /\ pc' = "for"
         /\ UNCHANGED raised

\* try: create, send, append; a ValueError of send is caught like one of
\* create, any other exception leaves process_order
ProcessOrderTry(notifier) ==
    LET e == Notifier_send_raises(notifier.class, args.order) IN
    IF e.type = "ValueError"
    THEN /\ constructed' = Append(constructed, notifier)
         /\ console' = Append(console, [kind |-> "error", e |-> e])
         /\ locals' = [i |-> locals.i + 1]
         /\ pc' = "for"
         /\ UNCHANGED <<notification_history, raised, clock>>
    ELSE IF e # NoError
    THEN /\ constructed' = Append(constructed, notifier)
         /\ raised' = e
         /\ pc' = "idle"
         /\ UNCHANGED <<console, locals, notification_history, clock>>
    ELSE \E now \in 0..MaxClock :
         LET sent == Notifier_send(notifier.class, args.order, now) IN
         /\ Now(now)
         /\ constructed' = Append(constructed, notifier)
         /\ console' = Append(console, sent.printed)
         /\ notification_history' =
                [notification_history EXCEPT ![args.self] = Append(@, sent.record)]
         /\ locals' = [i |-> locals.i + 1]
         /\ pc' = "for"
         /\ UNCHANGED raised

\* Faulty variant: the ValueError is not caught: it leaves process_order
ProcessOrderExceptAborts(e) ==
    /\ raised' = e
    /\ pc' = "idle"
    /\ UNCHANGED <<console, locals, constructed, notification_history, clock>>

\* except ValueError as e: print, and go on with the next key
ProcessOrderExcept(e) ==
    /\ console' = Append(console, [kind |-> "error", e |-> e])
    /\ locals' = [i |-> locals.i + 1]
    /\ pc' = "for"
    /\ UNCHANGED <<constructed, notification_history, raised, clock>>

ProcessOrderIter ==
    /\ pc = "for"
    /\ locals.i <= Len(args.notification_types)
    /\ LET created == NotifierFactory_create(args.notification_types[locals.i]) IN
        IF created.raised.type = "ValueError"
        THEN ProcessOrderExcept(created.raised)
        ELSE ProcessOrderTry(created.instance)
    /\ UNCHANGED <<program, loaded, registries, reports_generated, op, args, ret, entry>>

\* Faulty variant: the result reports the notifications that were recorded
NotificationFacade_result_recorded(order_id, channels) ==
    LET notified == SelectSeq(channels, LAMBDA k : DictHas(notifiers, k))
    IN [kind |-> "dict",
        value |-> [status |-> "success", order_id |-> order_id, channels_notified |-> notified,
                   total_notifications |-> Len(notified)]]

\* What the facade returns after process_order
NotificationFacade_result(order_id, channels) ==
    [kind |-> "dict",
     value |-> [status |-> "success", order_id |-> order_id, channels_notified |-> channels,
                total_notifications |-> Len(channels)]]

ProcessOrderReturn ==
    /\ pc = "for"
    /\ locals.i > Len(args.notification_types)
    /\ ret' = IF op = "process_order" THEN None
              ELSE NotificationFacade_result(args.order.order_id, args.notification_types)
    /\ pc' = "idle"
    /\ UNCHANGED <<program, loaded, registries, histories, clock, op, args, locals,
                   console, constructed, raised, entry>>

GetNotificationHistory(self) ==
    /\ pc = "idle"
    /\ program = "tienda"
    /\ Returns(IF self = "system" THEN "get_notification_history" ELSE "get_history",
               [self |-> self],
               [kind |-> "list", value |-> OrderNotificationSystem_get_notification_history(self)])
    /\ Fresh
    /\ constructed' = <<>>
    /\ UNCHANGED <<program, loaded, registries, histories, clock>>

-----------------------------------------------------------------------------
(* ejercicio1: NotificationFacade *)

SendOrderNotifications(order_id, customer_name, customer_email, customer_phone, device_id, total, channels) ==
    ProcessOrderEnter("send_order_notifications", "facade._system",
                      Order(order_id,
                            Customer(customer_name, customer_email, customer_phone, device_id),
                            total),
                      channels)

SendQuickEmail(order_id, name, email, total) ==
    ProcessOrderEnter("send_quick_email", "facade._system",
                      Order(order_id, Customer(name, email, "", ""), total),
                      << "email" >>)

\* Faulty variant: the channels are the list the module registered when it was loaded
SendAllChannelsCached(order_id, name, email, phone, device_id, total) ==
    ProcessOrderEnter("send_all_channels", "facade._system",
                      Order(order_id, Customer(name, email, phone, device_id), total),
                      DictKeys(NotifierRegistrations))

SendAllChannels(order_id, name, email, phone, device_id, total) ==
    ProcessOrderEnter("send_all_channels", "facade._system",
                      Order(order_id, Customer(name, email, phone, device_id), total),
                      NotifierFactory_get_available_types)

-----------------------------------------------------------------------------
(* ejercicio2: ReportSystem.generate_report, one statement per step *)

\* The data dicts clients pass
FinancialData == [income |-> 75000, expenses |-> 45000]

AuditData ==
    [actions |-> << [timestamp |-> "2024-01-15 10:30", user |-> "admin", action |-> "Login"] >>]

\* The requests clients make: every key registered when the module is loaded,
\* and each of the three keys in turn one that is not
ReportRequests ==
    { [report_type |-> "financial", output_format |-> "pdf", delivery_method |-> "cloud"],
      [report_type |-> "custom", output_format |-> "pdf", delivery_method |-> "cloud"],
      [report_type |-> "financial", output_format |-> "xml", delivery_method |-> "cloud"],
      [report_type |-> "financial", output_format |-> "pdf", delivery_method |-> "ftp"] }

SalesInputs ==
    { << [product |-> "Laptop HP", amount |-> Float(0, 900)],
         [product |-> "Mouse", amount |-> Float(0, 25)] >> }

ItemsInputs ==
    { << [name |-> "Laptop HP", category |-> "Computadoras", quantity |-> 15],
         [name |-> "Mouse", category |-> "Accesorios", quantity |-> 50],
         [name |-> "Teclado", category |-> "Accesorios", quantity |-> 30] >> }

ReportRoom == SumLen(reports_generated, ReportSystems) < MaxHistory

GenerateReportLocals ==
    [generator |-> NoInstance, formatter |-> NoInstance, delivery |-> NoInstance,
     content |-> <<>>, formatted_content |-> <<>>]

\* Entry of generate_report, from the client (name = "generate_report") or
\* from the facade method `name`
GenerateReportEnter(name, self, report_type, data, output_format, delivery_method) ==
    /\ pc = "idle"
    /\ program = "reportes"
    /\ ReportRoom
    /\ op' = name
    /\ args' = [self |-> self, report_type |-> report_type, data |-> data,
                output_format |-> output_format, delivery_method |-> delivery_method]
    /\ locals' = GenerateReportLocals
    /\ console' = <<>>
    /\ constructed' = <<>>
    /\ ret' = None
    /\ raised' = NoError
    /\ entry' = reports_generated
    /\ pc' = "create_generator"
    /\ UNCHANGED <<program, loaded, registries, histories, clock>>

GenerateReport(report_type, data, output_format, delivery_method) ==
    GenerateReportEnter("generate_report", "system", report_type, data, output_format,
                        delivery_method)

\* Faulty variant: the ValueError is caught and reported, as process_order does
GenerateReportCreateSwallows(at, created, variable, then) ==
    /\ pc = at
    /\ IF created.raised.type = "ValueError"
       THEN /\ console' = Append(console, [kind |-> "error", e |-> created.raised])
            /\ ret' = None
            /\ pc' = "idle"
            /\ UNCHANGED <<locals, constructed, raised>>
       ELSE /\ locals' = [locals EXCEPT ![variable] = created.instance]
            /\ constructed' = Append(constructed, created.instance)
            /\ pc' = then
            /\ UNCHANGED <<ret, raised, console>>
    /\ UNCHANGED <<program, loaded, registries, histories, clock, op, args, entry>>

\* One of the three create statements: the instance is bound to the local
\* variable, or the ValueError leaves generate_report
GenerateReportCreate(at, created, variable, then) ==
    /\ pc = at
    /\ IF created.raised.type = "ValueError"
       THEN /\ Raises(created.raised)
            /\ UNCHANGED <<locals, constructed>>
       ELSE /\ locals' = [locals EXCEPT ![variable] = created.instance]
            /\ constructed' = Append(constructed, created.instance)
            /\ pc' = then
            /\ UNCHANGED <<ret, raised>>
    /\ UNCHANGED <<program, loaded, registries, histories, clock, op, args, console,
                   entry>>

GenerateReportCreateGenerator ==
    GenerateReportCreate("create_generator", ReportGeneratorFactory_create(args.report_type),
                         "generator", "create_formatter")

GenerateReportCreateFormatter ==
    GenerateReportCreate("create_formatter", FormatterFactory_create(args.output_format),
                         "formatter", "create_delivery")

GenerateReportCreateDelivery ==
    GenerateReportCreate("create_delivery", DeliveryFactory_create(args.delivery_method),
                         "delivery", "generate")

\* content = generator.generate(data)
GenerateReportGenerate ==
    /\ pc = "generate"
    /\ \E now \in 0..MaxClock :
        /\ Now(now)
        /\ locals' = [locals EXCEPT
                        !.content = ReportGenerator_generate(locals.generator.class, args.data, now)]
    /\ pc' = "format"
    /\ UNCHANGED <<program, loaded, registries, histories, op, args, console,
                   constructed, ret, raised, entry>>

\* formatted_content = formatter.format(content)
\* Faulty variant: the record is appended as soon as the text is formatted,
\* before it is delivered
GenerateReportFormatRecords ==
    /\ pc = "format"
    /\ locals' = [locals EXCEPT
                    !.formatted_content = OutputFormatter_format(locals.formatter.class, locals.content)]
    /\ console' = Append(console, OutputFormatter_printed(locals.formatter.class))
    /\ reports_generated' =
           [reports_generated EXCEPT ![args.self] =
               Append(@, ReportRecord(args.report_type, args.output_format,
                                      args.delivery_method,
                                      Strftime(clock, "%Y-%m-%d %H:%M:%S")))]
    /\ pc' = "append"
    /\ UNCHANGED <<program, loaded, registries, notification_history, clock, op, args,
                   constructed, ret, raised, entry>>

GenerateReportFormat ==
    /\ pc = "format"
    /\ locals' = [locals EXCEPT
                    !.formatted_content = OutputFormatter_format(locals.formatter.class, locals.content)]
    /\ console' = Append(console, OutputFormatter_printed(locals.formatter.class))
    /\ pc' = "deliver"
    /\ UNCHANGED <<program, loaded, registries, histories, clock, op, args,
                   constructed, ret, raised, entry>>

\* Faulty variant: the text delivered is the content before it was formatted
GenerateReportDeliverUnformatted ==
    /\ pc = "deliver"
    /\ \E now \in 0..MaxClock :
        /\ IF locals.delivery.class = "DownloadDelivery" THEN Now(now)
           ELSE now = clock /\ UNCHANGED clock
        /\ console' = Append(console,
                             DeliveryMethod_deliver(locals.delivery, locals.content,
                                                    args.report_type,
                                                    OutputFormatter_get_file_extension(locals.formatter.class),
                                                    now))
    /\ pc' = "append"
    /\ UNCHANGED <<program, loaded, registries, histories, op, args, locals,
                   constructed, ret, raised, entry>>

\* delivery.deliver(formatted_content, report_type, formatter.get_file_extension())
GenerateReportDeliver ==
    /\ pc = "deliver"
    /\ \E now \in 0..MaxClock :
        /\ IF locals.delivery.class = "DownloadDelivery" THEN Now(now)
           ELSE now = clock /\ UNCHANGED clock
        /\ console' = Append(console,
                             DeliveryMethod_deliver(locals.delivery, locals.formatted_content,
                                                    args.report_type,
                                                    OutputFormatter_get_file_extension(locals.formatter.class),
                                                    now))
    /\ pc' = "append"
    /\ UNCHANGED <<program, loaded, registries, histories, op, args, locals,
                   constructed, ret, raised, entry>>

\* Faulty variant: the list of records is an attribute of the class, one
\* list for every ReportSystem
GenerateReportAppendShared ==
    /\ pc = "append"
    /\ \E now \in 0..MaxClock :
        /\ Now(now)
        /\ reports_generated' =
               [s \in ReportSystems |->
                   Append(reports_generated[s],
                          ReportRecord(args.report_type, args.output_format,
                                       args.delivery_method,
                                       Strftime(now, "%Y-%m-%d %H:%M:%S")))]
    /\ pc' = "return"
    /\ UNCHANGED <<program, loaded, registries, notification_history, op, args,
                   locals, console, constructed, ret, raised, entry>>

\* self._reports_generated.append(ReportRecord(...))
GenerateReportAppend ==
    /\ pc = "append"
    /\ \E now \in 0..MaxClock :
        /\ Now(now)
        /\ reports_generated' =
               [reports_generated EXCEPT ![args.self] =
                   Append(@, ReportRecord(args.report_type, args.output_format,
                                          args.delivery_method,
                                          Strftime(now, "%Y-%m-%d %H:%M:%S")))]
    /\ pc' = "return"
    /\ UNCHANGED <<program, loaded, registries, notification_history, op, args,
                   locals, console, constructed, ret, raised, entry>>

\* the closing prints, and return formatted_content
GenerateReportReturn ==
    /\ pc = "return"
    /\ console' = Append(console, [kind |-> "generated", text |-> locals.formatted_content])
    /\ ret' = [kind |-> "str", value |-> locals.formatted_content]
    /\ pc' = "idle"
    /\ UNCHANGED <<program, loaded, registries, histories, clock, op, args, locals,
                   constructed, raised, entry>>

\* Faulty variant: the records are popped off the list as they are read
GetReportHistoryDrains(self) ==
    /\ pc = "idle"
    /\ program = "reportes"
    /\ Returns(IF self = "system" THEN "get_report_history" ELSE "get_history",
               [self |-> self],
               [kind |-> "list", value |-> ReportSystem_get_report_history(self)])
    /\ Fresh
    /\ constructed' = <<>>
    /\ reports_generated' = [reports_generated EXCEPT ![self] = <<>>]
    /\ UNCHANGED <<program, loaded, registries, notification_history, clock>>

GetReportHistory(self) ==
    /\ pc = "idle"
    /\ program = "reportes"
    /\ Returns(IF self = "system" THEN "get_report_history" ELSE "get_history",
               [self |-> self],
               [kind |-> "list", value |-> ReportSystem_get_report_history(self)])
    /\ Fresh
    /\ constructed' = <<>>
    /\ UNCHANGED <<program, loaded, registries, histories, clock>>

-----------------------------------------------------------------------------
(* ejercicio2: ReportFacade *)

GenerateSalesReportPdfEmail(period, sales) ==
    GenerateReportEnter("generate_sales_report_pdf_email", "facade._system", "sales",
                        [period |-> period, sales |-> sales], "pdf", "email")

GenerateInventoryReportExcelDownload(items) ==
    GenerateReportEnter("generate_inventory_report_excel_download", "facade._system",
                        "inventory", [items |-> items], "excel", "download")

GenerateFinancialReportHtmlCloud(income, expenses) ==
    GenerateReportEnter("generate_financial_report_html_cloud", "facade._system",
                        "financial", [income |-> income, expenses |-> expenses], "html", "cloud")

GenerateCustomReport(report_type, data, output_format, delivery) ==
    GenerateReportEnter("generate_custom_report", "facade._system", report_type, data,
                        output_format, delivery)

GetAvailableOptions ==
    /\ pc = "idle"
    /\ program = "reportes"
    /\ Returns("get_available_options", NoArgs,
               [kind |-> "dict", value |-> ReportFacade_get_available_options])
    /\ Fresh
    /\ constructed' = <<>>
    /\ UNCHANGED <<program, loaded, registries, histories, clock>>

-----------------------------------------------------------------------------
(* The next-state relations *)

FactoryCalls ==
    \/ LoadModule
    \/ \E f \in Factories : \E k \in KeyInputs(f) : Create(f, k)

TiendaCalls ==
    \/ GetAvailableTypes
    \/ \E o \in Orders : \E ks \in KeyLists : ProcessOrder(o, ks)
    \/ ProcessOrderIter
    \/ ProcessOrderReturn
    \/ \E self \in NotificationSystems : GetNotificationHistory(self)
    \/ \E o \in FacadeOrders : \E ks \in KeyLists :
          SendOrderNotifications(o.order_id, o.customer.name, o.customer.email,
                                 o.customer.phone, o.customer.device_id, o.total, ks)
    \/ \E o \in FacadeOrders :
          SendQuickEmail(o.order_id, o.customer.name, o.customer.email, o.total)
    \/ \E o \in FacadeOrders :
          SendAllChannels(o.order_id, o.customer.name, o.customer.email, o.customer.phone,
                          o.customer.device_id, o.total)

ReportesCalls ==
    \/ GetAvailableOptions
    \/ \E r \in ReportRequests :
          GenerateReport(r.report_type, FinancialData, r.output_format, r.delivery_method)
    \/ GenerateReportCreateGenerator
    \/ GenerateReportCreateFormatter
    \/ GenerateReportCreateDelivery
    \/ GenerateReportGenerate
    \/ GenerateReportFormat
    \/ GenerateReportDeliver
    \/ GenerateReportAppend
    \/ GenerateReportReturn
    \/ \E self \in ReportSystems : GetReportHistory(self)
    \/ \E sales \in SalesInputs : GenerateSalesReportPdfEmail("Enero 2024", sales)
    \/ \E items \in ItemsInputs : GenerateInventoryReportExcelDownload(items)
    \/ \E d \in {FinancialData} : GenerateFinancialReportHtmlCloud(d.income, d.expenses)
    \/ GenerateCustomReport("custom", AuditData, "pdf", "email")

LateRegister == \E r \in LateRegistrations : Register(r)

\* A client registers a variant under the key the variant reports, as the
\* module body does
OwnKeyRegister == \E i \in 1..Len(Registrations) : Register(Registrations[i])

\* Either program, with clients registering what they like
Next == FactoryCalls \/ LateRegister \/ TiendaCalls \/ ReportesCalls

Spec == Init /\ [][Next]_vars

\* ejercicio1 alone, ejercicio2 alone
NextTienda == FactoryCalls \/ LateRegister \/ TiendaCalls

InitTienda == Init /\ program = "tienda"

SpecTienda == InitTienda /\ [][NextTienda]_vars

NextReportes == FactoryCalls \/ LateRegister \/ ReportesCalls

InitReportes == Init /\ program = "reportes"

SpecReportes == InitReportes /\ [][NextReportes]_vars

\* Either program, with every variant registered under its own key only
NextOwnKeys == FactoryCalls \/ OwnKeyRegister \/ TiendaCalls \/ ReportesCalls

SpecOwnKeys == Init /\ [][NextOwnKeys]_vars

-----------------------------------------------------------------------------
(* Properties of process_order *)

ProcessOrderOps ==
    {"process_order", "send_order_notifications", "send_quick_email", "send_all_channels"}

\* The keys the loop has dealt with so far, split by whether they are registered
Processed == SubSeq(args.notification_types, 1, locals.i - 1)
ProcessedKnown == SelectSeq(Processed, LAMBDA k : DictHas(notifiers, k))
ProcessedUnknown == SelectSeq(Processed, LAMBDA k : ~DictHas(notifiers, k))

ErrorsPrinted == SelectSeq(console, LAMBDA e : e.kind = "error")
SentPrinted == SelectSeq(console, LAMBDA e : e.kind = "sent")

\* C1: process_order never raises because of an unregistered key: each
\* occurrence of an unregistered key is reported once, with that key, the loop
\* goes on, and every registered key (also one after an unknown key) is sent.
C1_UnknownKeyIsNotFatal ==
    op \in ProcessOrderOps =>
        /\ raised = NoError
        /\ Len(ErrorsPrinted) = Len(ProcessedUnknown)
        /\ \A j \in 1..Len(ErrorsPrinted) :
              /\ ErrorsPrinted[j].e.type = "ValueError"
              /\ ErrorsPrinted[j].e.msg[2] = ProcessedUnknown[j]
        /\ Len(SentPrinted) = Len(ProcessedKnown)
        /\ Len(constructed) = Len(ProcessedKnown)
        /\ \A j \in 1..Len(constructed) :
              constructed[j].class = DictGet(notifiers, ProcessedKnown[j])
        /\ pc = "idle" => locals.i = Len(args.notification_types) + 1

C1_Witness ==
    /\ pc = "idle"
    /\ op = "process_order"
    /\ args.notification_types = << "email", "telegram", "sms" >>
    /\ ~DictHas(notifiers, "telegram")
    /\ Len(ErrorsPrinted) = 1
    /\ Len(notification_history["system"]) = Len(entry["system"]) + 2
    /\ notification_history["system"][Len(entry["system"]) + 2].type = "sms"

\* C2: after process_order the history is the history before the call
\* followed by one record per occurrence of a registered key, in the order of
\* the keys: nothing for an unregistered key, n records for a key given n times.
C2_HistoryGrowsByRegisteredKeys ==
    op \in ProcessOrderOps =>
        LET h == notification_history[args.self]
            before == entry[args.self]
        IN /\ Len(h) = Len(before) + Len(ProcessedKnown)
           /\ SubSeq(h, 1, Len(before)) = before
           /\ \A j \in 1..Len(ProcessedKnown) :
                 \E t \in 0..MaxClock :
                    h[Len(before) + j] =
                        Notifier_send(DictGet(notifiers, ProcessedKnown[j]), args.order, t).record

C2_Witness ==
    /\ pc = "idle"
    /\ op \in ProcessOrderOps
    /\ args.notification_types = << "email", "email" >>
    /\ Len(entry[args.self]) > 0
    /\ Len(notification_history[args.self]) = Len(entry[args.self]) + 2

-----------------------------------------------------------------------------
(* Properties of the four registries *)

AllFactories ==
    {"NotifierFactory", "ReportGeneratorFactory", "FormatterFactory", "DeliveryFactory"}

\* The key listing the program offers for each registry
Listing(factory) ==
    CASE factory = "NotifierFactory" -> NotifierFactory_get_available_types
      [] factory = "ReportGeneratorFactory" -> ReportFacade_get_available_options.report_types
      [] factory = "FormatterFactory" -> ReportFacade_get_available_options.formats
      [] factory = "DeliveryFactory" -> ReportFacade_get_available_options.delivery_methods

\* The key an instance of the class reports about itself
SelfReportedKey(factory, class) ==
    CASE factory = "NotifierFactory" -> Notifier_get_type(class)
      [] factory = "ReportGeneratorFactory" -> ReportGenerator_get_type(class)
      [] factory = "FormatterFactory" -> OutputFormatter_get_format_type(class)
      [] factory = "DeliveryFactory" -> DeliveryMethod_get_method_type(class)

\* C3: in each registry, create of a key that is not registered fails with the
\* ValueError carrying that key, constructs nothing and leaves the registries
\* as they were; create of a registered key does not fail and constructs an
\* instance of the class registered under the key.
C3_CreateUnknownKeyFails ==
    [][ (pc = "idle" /\ pc' = "idle" /\ op' = "create") =>
            /\ registries' = registries
            /\ IF DictHas(Registry(args'.factory), args'.key)
               THEN /\ raised' = NoError
                    /\ ret'.kind = "instance"
                    /\ ret'.value.class = DictGet(Registry(args'.factory), args'.key)
                    /\ constructed' = << ret'.value >>
               ELSE /\ raised'.type = "ValueError"
                    /\ raised'.msg[2] = args'.key
                    /\ constructed' = <<>>
                    /\ ret' = None ]_vars

C3_Witness ==
    /\ program = "reportes"
    /\ pc = "idle"
    /\ op = "create"
    /\ args.factory = "DeliveryFactory"
    /\ args.key = "ftp"
    /\ ~DictHas(methods, "ftp")
    /\ raised.type = "ValueError"
    /\ raised.msg[2] = "ftp"
    /\ constructed = <<>>

\* C5: the key listing of each registry holds every key ever registered once,
\* in the order of first registration: a register call of a new key puts it at
\* the end, a register call of a key already there leaves the listing as it
\* is, either way the key then maps to the class given, and no other step
\* changes the listing.
C5_ListingInFirstRegistrationOrder ==
    [][ IF op' = "register"
        THEN \A f \in AllFactories :
                LET old == Listing(f)
                    new == Listing(f)'
                IN IF args'.factory = f
                   THEN /\ new = IF \E i \in 1..Len(old) : old[i] = args'.key
                                 THEN old
                                 ELSE Append(old, args'.key)
                        /\ \A i, j \in 1..Len(new) : new[i] = new[j] => i = j
                        /\ DictGet(Registry(f)', args'.key) = args'.class
                   ELSE new = old
        ELSE \/ registries' = registries
             \/ \A f \in AllFactories : Listing(f)' = Listing(f) ]_vars

C5_Witness ==
    /\ pc = "idle"
    /\ op = "register"
    /\ args.key = "telegram"
    /\ NotifierFactory_get_available_types = << "email", "sms", "push", "whatsapp", "telegram" >>
    /\ DictGet(notifiers, "sms") = "WhatsAppNotifier"

\* C6: register never fails and the last write wins: once register(k, c) has
\* returned, whatever k was registered as before, create(k) constructs a c.
C6_LastWriteWins ==
    op = "register" =>
        /\ raised = NoError
        /\ Factory_create(args.factory, args.key).raised = NoError
        /\ Factory_create(args.factory, args.key).instance.class = args.class

C6_Witness ==
    /\ pc = "idle"
    /\ op = "register"
    /\ args.factory = "NotifierFactory"
    /\ args.key = "sms"
    /\ args.class = "WhatsAppNotifier"
    /\ NotifierRegistrations[2] = [factory |-> "NotifierFactory", key |-> "sms", class |-> "SMSNotifier"]
    /\ Factory_create("NotifierFactory", "sms").instance.class = "WhatsAppNotifier"

\* C7: no step removes a key from a registry, and a register call changes
\* nothing but the entry of its key in its registry: the other entries keep
\* their class and their place, the other registries and the histories are
\* as they were.
C7_RegisterTouchesOnlyItsKey ==
    [][ /\ \/ registries' = registries
           \/ \A f \in AllFactories : \A i \in 1..Len(Registry(f)) :
                 DictHas(Registry(f)', Registry(f)[i].key)
        /\ op' = "register" =>
              /\ histories' = histories
              /\ \A f \in AllFactories :
                    IF f # args'.factory
                    THEN Registry(f)' = Registry(f)
                    ELSE /\ \A i \in 1..Len(Registry(f)) :
                               Registry(f)[i].key # args'.key => Registry(f)'[i] = Registry(f)[i]
                         /\ SelectSeq(Registry(f)', LAMBDA item : item.key # args'.key)
                               = SelectSeq(Registry(f), LAMBDA item : item.key # args'.key) ]_vars

C7_Witness ==
    /\ program = "reportes"
    /\ pc = "idle"
    /\ op = "register"
    /\ args.factory = "FormatterFactory"
    /\ DictHas(generators, "custom")
    /\ Len(reports_generated["system"]) > 0

-----------------------------------------------------------------------------
(* Properties of the notification facade *)

\* C8: send_all_channels dispatches to the keys registered when it is called,
\* in registration order, a key registered after the facade was built
\* included; each key is served by the class registered under it.
C8_AllChannelsReadAtCallTime ==
    op = "send_all_channels" =>
        /\ args.notification_types = NotifierFactory_get_available_types
        /\ pc = "idle" =>
              /\ Len(constructed) = Len(notifiers)
              /\ \A j \in 1..Len(constructed) : constructed[j].class = notifiers[j].value
              /\ ret.value.channels_notified = DictKeys(notifiers)
              /\ Len(notification_history[args.self]) = Len(entry[args.self]) + Len(notifiers)

C8_Witness ==
    /\ pc = "idle"
    /\ op = "send_all_channels"
    /\ args.notification_types = << "email", "sms", "push", "whatsapp", "telegram" >>
    /\ Len(constructed) = 5
    /\ constructed[1].class = "EmailNotifier"
    /\ notification_history[args.self][Len(entry[args.self]) + 5].recipient = args.order.customer.phone

-----------------------------------------------------------------------------
(* Properties of generate_report *)

GenerateReportOps ==
    {"generate_report", "generate_sales_report_pdf_email",
     "generate_inventory_report_excel_download", "generate_financial_report_html_cloud",
     "generate_custom_report"}

AllRegistered ==
    /\ DictHas(generators, args.report_type)
    /\ DictHas(formatters, args.output_format)
    /\ DictHas(methods, args.delivery_method)

\* The first of the three keys, in the order they are looked up, that is not registered
FirstUnknown ==
    IF ~DictHas(generators, args.report_type) THEN args.report_type
    ELSE IF ~DictHas(formatters, args.output_format) THEN args.output_format
    ELSE args.delivery_method

Delivered == SelectSeq(console, LAMBDA e : e.kind = "deliver")

\* C4: generate_report with any of its three keys unregistered fails with the
\* ValueError of that key, which reaches the caller; nothing is generated,
\* formatted or delivered, and the report history is as it was.
C4_NoPartialReport ==
    (op \in GenerateReportOps /\ ~AllRegistered) =>
        /\ pc \in {"create_generator", "create_formatter", "create_delivery", "idle"}
        /\ console = <<>>
        /\ locals.content = <<>>
        /\ locals.formatted_content = <<>>
        /\ reports_generated = entry
        /\ pc # "idle" => raised = NoError
        /\ pc = "idle" =>
              /\ raised.type = "ValueError"
              /\ raised.msg[2] = FirstUnknown
              /\ ret = None

C4_Witness ==
    /\ pc = "idle"
    /\ op = "generate_report"
    /\ args.delivery_method = "ftp"
    /\ raised.type = "ValueError"
    /\ raised.msg[2] = "ftp"
    /\ Len(constructed) = 2
    /\ reports_generated = entry
    /\ Len(reports_generated["system"]) > 0

\* C10: generate_report with its three keys registered returns the text of
\* the resolved generator wrapped by the resolved formatter, has called the
\* resolved delivery method once, with that text, the report type and the
\* formatter's file extension, and has appended one record of the three keys
\* to the history.
C10_ReportGenerated ==
    (op \in GenerateReportOps /\ pc = "idle" /\ AllRegistered) =>
        LET G == DictGet(generators, args.report_type)
            F == DictGet(formatters, args.output_format)
            M == DictGet(methods, args.delivery_method)
            h == reports_generated[args.self]
            before == entry[args.self]
        IN /\ raised = NoError
           /\ ret.kind = "str"
           /\ \E t \in 0..MaxClock :
                 ret.value = OutputFormatter_format(F, ReportGenerator_generate(G, args.data, t))
           /\ Len(Delivered) = 1
           /\ Delivered[1].self.class = M
           /\ Delivered[1].content = ret.value
           /\ Delivered[1].report_type = args.report_type
           /\ Delivered[1].file_extension = OutputFormatter_get_file_extension(F)
           /\ Len(h) = Len(before) + 1
           /\ SubSeq(h, 1, Len(before)) = before
           /\ h[Len(h)].report_type = args.report_type
           /\ h[Len(h)].output_format = args.output_format
           /\ h[Len(h)].delivery_method = args.delivery_method
           /\ \A other \in ReportSystems \ {args.self} : reports_generated[other] = entry[other]

C10_Witness ==
    /\ pc = "idle"
    /\ op = "generate_report"
    /\ args.report_type = "custom"
    /\ raised = NoError
    /\ ret.kind = "str"
    /\ Len(entry["system"]) > 0
    /\ Len(reports_generated["system"]) = Len(entry["system"]) + 1

-----------------------------------------------------------------------------
(* Properties of the histories *)

IsPrefix(s, t) == Len(s) <= Len(t) /\ SubSeq(t, 1, Len(s)) = s

HistoryReadOps == {"get_notification_history", "get_report_history", "get_history"}

\* C11: both histories are append-only: over every step the history of each
\* system before the step is a prefix of its history after it, and a step
\* that reads a history (get_notification_history, get_report_history,
\* get_history) leaves the histories as they were and returns one entry per
\* record.
C11_HistoriesAppendOnly ==
    [][ /\ \/ histories' = histories
           \/ /\ \A s \in NotificationSystems :
                    IsPrefix(notification_history[s], notification_history'[s])
              /\ \A s \in ReportSystems :
                    IsPrefix(reports_generated[s], reports_generated'[s])
        /\ (pc = "idle" /\ op' \in HistoryReadOps) =>
              /\ histories' = histories
              /\ Len(ret'.value) = IF program = "tienda"
                                   THEN Len(notification_history[args'.self])
                                   ELSE Len(reports_generated[args'.self]) ]_vars

C11_Witness ==
    /\ program = "reportes"
    /\ pc = "idle"
    /\ op = "get_history"
    /\ Len(ret.value) = 2
    /\ Len(reports_generated["facade._system"]) = 2
    /\ ret.value[2].type = reports_generated["facade._system"][2].report_type

-----------------------------------------------------------------------------
(* Properties of the report text *)

\* The text occurs in the sequence of tokens
Contains(text, token) == \E i \in 1..Len(text) : text[i] = token

\* generate has returned in the call in progress or just finished
ContentGenerated == op \in GenerateReportOps /\ locals.content # <<>>

\* C12: whatever generator, formatter and delivery method a report is made
\* with, its text is the header, then the body of the generator for the
\* data, then the footer, the header holding the generator's title and the
\* time of generation; the formatter wraps this text whole.
C12_HeaderBodyFooter ==
    ContentGenerated =>
        LET G == locals.generator.class
            content == locals.content
            body == ReportGenerator_build_body(G, args.data)
            footer == ReportGenerator_build_footer
        IN /\ \E t \in 0..MaxClock :
                 LET header == ReportGenerator_build_header(G, t)
                 IN /\ Len(content) = Len(header) + Len(body) + Len(footer)
                    /\ SubSeq(content, 1, Len(header)) = header
                    /\ SubSeq(content, Len(header) + 1, Len(header) + Len(body)) = body
                    /\ SubSeq(content, Len(header) + Len(body) + 1, Len(content)) = footer
                    /\ Contains(header, ReportGenerator_get_title(G))
                    /\ Contains(header, Strftime(t, "%Y-%m-%d %H:%M:%S"))
           /\ body # <<>>
           /\ (pc = "idle" /\ raised = NoError) =>
                 \E i \in 1..Len(ret.value) :
                     SubSeq(ret.value, i, i + Len(content) - 1) = content

C12_Witness ==
    /\ pc = "idle"
    /\ op = "generate_custom_report"
    /\ raised = NoError
    /\ locals.generator.class = "AuditReportGenerator"
    /\ locals.formatter.class = "HTMLFormatter"
    /\ Contains(locals.content, "REPORTE DE AUDITORIA")
    /\ Contains(ret.value, "REPORTE DE AUDITORIA")

-----------------------------------------------------------------------------
(* The report bodies, over the data clients may pass *)

\* Amounts of money: a loss, nothing, and the amounts of the demonstration
Amounts == {-100, 0, 45000, 75000}

\* The data of a financial report: both entries, or one of them missing
FinancialInputs ==
    [income : Amounts, expenses : Amounts] \cup [income : Amounts] \cup [expenses : Amounts]

\* The sales lists clients pass: none, whole amounts in two orders, and
\* amounts near the top of the float range in two orders
SalesLists ==
    { <<>>,
      << [product |-> "Laptop HP", amount |-> Float(0, 900)],
         [product |-> "Mouse", amount |-> Float(0, 25)] >>,
      << [product |-> "Mouse", amount |-> Float(0, 25)],
         [product |-> "Laptop HP", amount |-> Float(0, 900)] >>,
      << [product |-> "Flota", amount |-> Float(1, 0)],
         [product |-> "Flota", amount |-> Float(1, 0)],
         [product |-> "Devolucion", amount |-> Float(-1, 0)] >>,
      << [product |-> "Flota", amount |-> Float(1, 0)],
         [product |-> "Devolucion", amount |-> Float(-1, 0)],
         [product |-> "Flota", amount |-> Float(1, 0)] >> }

GenerateReportSteps ==
    \/ GenerateReportCreateGenerator
    \/ GenerateReportCreateFormatter
    \/ GenerateReportCreateDelivery
    \/ GenerateReportGenerate
    \/ GenerateReportFormat
    \/ GenerateReportDeliver
    \/ GenerateReportAppend
    \/ GenerateReportReturn

NextBodies ==
    \/ LoadModule
    \/ \E data \in FinancialInputs : GenerateReport("financial", data, "pdf", "download")
    \/ \E income, expenses \in Amounts : GenerateFinancialReportHtmlCloud(income, expenses)
    \/ \E sales \in SalesLists : GenerateSalesReportPdfEmail("Enero 2024", sales)
    \/ GenerateReport("sales", [period |-> "Enero 2024"], "pdf", "download")
    \/ GenerateReportSteps

SpecBodies == InitReportes /\ [][NextBodies]_vars

\* The body is what generate put between the header and the footer
BodyGenerated ==
    SubSeq(locals.content,
           Len(ReportGenerator_build_header(locals.generator.class, 0)) + 1,
           Len(locals.content) - Len(ReportGenerator_build_footer))

\* C13: the body of a financial report gives balance = income - expenses, a
\* missing income or expenses counting as 0, and says POSITIVO exactly when
\* the balance is above 0, NEGATIVO exactly when it is below 0 and NEUTRO
\* exactly when it is 0.
C13_FinancialBalance ==
    (ContentGenerated /\ locals.generator.class = "FinancialReportGenerator") =>
        LET income == IF "income" \in DOMAIN args.data THEN args.data.income ELSE 0
            expenses == IF "expenses" \in DOMAIN args.data THEN args.data.expenses ELSE 0
            body == BodyGenerated
        IN /\ Len(body) = 10
           /\ body[7] = "Balance: $"
           /\ body[8] = Format2f(income - expenses)
           /\ (body[10] = "\nEstado: POSITIVO\n") <=> (income - expenses > 0)
           /\ (body[10] = "\nEstado: NEGATIVO\n") <=> (income - expenses < 0)
           /\ (body[10] = "\nEstado: NEUTRO\n") <=> (income - expenses = 0)

C13_Witness ==
    /\ pc = "idle"
    /\ op = "generate_financial_report_html_cloud"
    /\ args.data = [income |-> 75000, expenses |-> 45000]
    /\ raised = NoError
    /\ BodyGenerated[8] = Format2f(30000)
    /\ BodyGenerated[10] = "\nEstado: POSITIVO\n"
    /\ Contains(ret.value, "\nEstado: POSITIVO\n")

\* The sales list the body is built from
SalesGiven == IF "sales" \in DOMAIN args.data THEN args.data.sales ELSE <<>>

SalesGenerated == ContentGenerated /\ locals.generator.class = "SalesReportGenerator"

\* The whole units of the amounts, added as integers
RECURSIVE SumUnits(_)
SumUnits(sales) ==
    IF sales = <<>> THEN 0 ELSE Head(sales).amount.units + SumUnits(Tail(sales))

\* C14 as stated: the total of the sales report is the sum of the amounts
\* whatever the order of the items, and the transaction count is the length
\* of the list.
C14_TotalInAnyOrder ==
    SalesGenerated =>
        /\ BodyGenerated[5] = Str(Len(SalesGiven))
        /\ \A q \in Permutations(1..Len(SalesGiven)) :
              BodyGenerated[2] =
                  Format2f(Float_sum([i \in 1..Len(SalesGiven) |-> SalesGiven[q[i]]], "amount"))

\* C14 as amended: the total of the sales report is the floating-point sum
\* of the amounts added in list order, which is the exact sum, the same in
\* every order, when no partial sum is rounded or overflows; the transaction
\* count is the length of the list; no list, or an empty one, gives total 0
\* and count 0.
C14_TotalInListOrder ==
    SalesGenerated =>
        /\ BodyGenerated[1] = "Total de ventas: $"
        /\ BodyGenerated[2] = Format2f(Float_sum(SalesGiven, "amount"))
        /\ BodyGenerated[4] = "Numero de transacciones: "
        /\ BodyGenerated[5] = Str(Len(SalesGiven))
        /\ (\A i \in 1..Len(SalesGiven) : SalesGiven[i].amount.huge = 0) =>
              /\ BodyGenerated[2] = Format2f(Float(0, SumUnits(SalesGiven)))
              /\ \A q \in Permutations(1..Len(SalesGiven)) :
                    BodyGenerated[2] =
                        Format2f(Float_sum([i \in 1..Len(SalesGiven) |-> SalesGiven[q[i]]],
                                           "amount"))
        /\ SalesGiven = <<>> =>
              /\ BodyGenerated[2] = Format2f(Float(0, 0))
              /\ BodyGenerated[5] = Str(0)

C14_Witness ==
    /\ pc = "idle"
    /\ op = "generate_sales_report_pdf_email"
    /\ raised = NoError
    /\ Len(args.data.sales) = 3
    /\ args.data.sales[2].amount = Float(1, 0)
    /\ BodyGenerated[2] = Format2f(Inf(1))
    /\ BodyGenerated[5] = Str(3)

-----------------------------------------------------------------------------
(* Properties of the notification records *)

\* The records the call in progress, or just finished, has appended
RecordsAppended ==
    SubSeq(notification_history[args.self], Len(entry[args.self]) + 1,
           Len(notification_history[args.self]))

\* C15: the recipient of every notification record comes from the customer
\* of the order, by the notifier that sent it: the email notifier takes the
\* email, the sms and whatsapp notifiers the phone, the push notifier the
\* device id.
C15_RecipientByChannel ==
    op \in ProcessOrderOps =>
        /\ Len(RecordsAppended) = Len(ProcessedKnown)
        /\ \A j \in 1..Len(RecordsAppended) :
              LET class == DictGet(notifiers, ProcessedKnown[j])
                  customer == args.order.customer
              IN /\ class = "EmailNotifier" => RecordsAppended[j].recipient = customer.email
                 /\ class = "SMSNotifier" => RecordsAppended[j].recipient = customer.phone
                 /\ class = "WhatsAppNotifier" => RecordsAppended[j].recipient = customer.phone
                 /\ class = "PushNotifier" => RecordsAppended[j].recipient = customer.device_id
                 /\ class \in NotifierClasses

C15_Witness ==
    /\ pc = "idle"
    /\ op = "send_all_channels"
    /\ Len(RecordsAppended) = 4
    /\ RecordsAppended[1].recipient = "maria@email.com"
    /\ RecordsAppended[2].recipient = "+34-600-555"
    /\ RecordsAppended[3].recipient = "DEVICE-LMN"
    /\ RecordsAppended[4].recipient = "+34-600-555"
    /\ RecordsAppended[2].type = "sms"
    /\ RecordsAppended[4].type = "whatsapp"

-----------------------------------------------------------------------------
(* The order of the steps of generate_report *)

\* C16: in a generate_report call the steps come in one order: the three
\* lookups are done before the text is generated, the text is generated
\* before it is formatted, formatted before it is delivered, delivered before
\* the record is appended, and the record is appended before the call
\* returns; when the delivery happens the record of the call is not in the
\* history, and once it is in the history the delivery has happened.
C16_StepsInOrder ==
    [][ (op \in GenerateReportOps /\ pc \notin {"idle", "load"}) =>
            /\ (locals.content = <<>> /\ locals'.content # <<>>) =>
                  /\ Len(constructed) = 3
                  /\ locals.generator # NoInstance
                  /\ locals.formatter # NoInstance
                  /\ locals.delivery # NoInstance
                  /\ locals.formatted_content = <<>>
                  /\ Delivered = <<>>
                  /\ reports_generated = entry
            /\ (locals.formatted_content = <<>> /\ locals'.formatted_content # <<>>) =>
                  /\ locals.content # <<>>
                  /\ Delivered = <<>>
                  /\ reports_generated = entry
            /\ Delivered' # Delivered =>
                  /\ Delivered = <<>>
                  /\ Len(Delivered') = 1
                  /\ locals.formatted_content # <<>>
                  /\ reports_generated' = entry'
            /\ reports_generated' # reports_generated =>
                  /\ Len(Delivered) = 1
                  /\ reports_generated = entry
                  /\ ret = None
                  /\ pc' # "idle"
            /\ pc' = "idle" =>
                  \/ raised'.type = "ValueError" /\ Len(constructed) < 3
                  \/ /\ raised' = NoError
                     /\ ret' # None
                     /\ Len(Delivered) = 1
                     /\ Len(reports_generated[args.self]) = Len(entry[args.self]) + 1 ]_vars

C16_Witness ==
    /\ op \in GenerateReportOps
    /\ pc = "return"
    /\ Len(constructed) = 3
    /\ locals.formatted_content # <<>>
    /\ Len(Delivered) = 1
    /\ Len(reports_generated[args.self]) = Len(entry[args.self]) + 1
    /\ ret = None

-----------------------------------------------------------------------------
(* Properties of the result of the notification facade *)

FacadeSendOps == {"send_order_notifications", "send_quick_email", "send_all_channels"}

\* C17: send_order_notifications returns status "success", the channels it
\* was asked for and their number, however many of them are not registered:
\* the number returned counts the keys requested, not the records the call
\* appended.
C17_ResultCountsRequestedKeys ==
    (op \in FacadeSendOps /\ pc = "idle") =>
        /\ raised = NoError
        /\ ret.kind = "dict"
        /\ ret.value.status = "success"
        /\ ret.value.order_id = args.order.order_id
        /\ ret.value.channels_notified = args.notification_types
        /\ ret.value.total_notifications = Len(args.notification_types)
        /\ Len(RecordsAppended) = ret.value.total_notifications - Len(ProcessedUnknown)

C17_Witness ==
    /\ pc = "idle"
    /\ op = "send_order_notifications"
    /\ args.notification_types = << "email", "telegram", "sms" >>
    /\ ~DictHas(notifiers, "telegram")
    /\ ret.value.status = "success"
    /\ ret.value.total_notifications = 3
    /\ Len(RecordsAppended) = 2

-----------------------------------------------------------------------------
(* process_order with notifiers whose send raises *)

ClientRegistrations ==
    { [factory |-> "NotifierFactory", key |-> "strict", class |-> "StrictNotifier"],
      [factory |-> "NotifierFactory", key |-> "offline", class |-> "OfflineNotifier"] }

ClientKeyLists ==
    { << "email", "strict", "sms" >>,
      << "telegram", "strict" >>,
      << "strict", "email", "offline", "sms" >> }

NextClientNotifiers ==
    \/ LoadModule
    \/ \E r \in ClientRegistrations : Register(r)
    \/ \E o \in Orders : \E ks \in ClientKeyLists : ProcessOrder(o, ks)
    \/ \E o \in FacadeOrders : \E ks \in ClientKeyLists :
          SendOrderNotifications(o.order_id, o.customer.name, o.customer.email,
                                 o.customer.phone, o.customer.device_id, o.total, ks)
    \/ ProcessOrderIter
    \/ ProcessOrderReturn

SpecClientNotifiers == InitTienda /\ [][NextClientNotifiers]_vars

\* What send of the notifier registered under the key raises
SendRaises(k) == Notifier_send_raises(DictGet(notifiers, k), args.order)

\* The keys dealt with so far whose notification was sent and recorded, and
\* those that were reported as failed
ProcessedSent ==
    SelectSeq(Processed, LAMBDA k : DictHas(notifiers, k) /\ SendRaises(k) = NoError)

ProcessedFailed ==
    SelectSeq(Processed, LAMBDA k : ~DictHas(notifiers, k) \/ SendRaises(k).type = "ValueError")

\* C18: process_order tells a failure by the kind of the exception, not by
\* where it comes from: a ValueError raised by send of a registered notifier
\* is reported and skipped like an unregistered key, with no record and the
\* batch going on; any other exception raised by send ends the call at that
\* key, the records of the keys before it staying in the history.
C18_FailureByErrorKind ==
    op \in ProcessOrderOps =>
        /\ Len(Processed) = Len(ProcessedSent) + Len(ProcessedFailed)
        /\ Len(RecordsAppended) = Len(ProcessedSent)
        /\ \A j \in 1..Len(ProcessedSent) : RecordsAppended[j].type = ProcessedSent[j]
        /\ Len(ErrorsPrinted) = Len(ProcessedFailed)
        /\ \A j \in 1..Len(ErrorsPrinted) : ErrorsPrinted[j].e.type = "ValueError"
        /\ raised.type # "ValueError"
        /\ raised # NoError <=>
              /\ pc = "idle"
              /\ locals.i <= Len(args.notification_types)
              /\ DictHas(notifiers, args.notification_types[locals.i])
              /\ SendRaises(args.notification_types[locals.i]) = raised
        /\ (pc = "idle" /\ raised = NoError) => locals.i = Len(args.notification_types) + 1
        /\ raised # NoError => ret = None

C18_Witness ==
    /\ op = "process_order"
    /\ pc = "idle"
    /\ args.notification_types = << "strict", "email", "offline", "sms" >>
    /\ DictHas(notifiers, "strict")
    /\ DictGet(notifiers, "strict") = "StrictNotifier"
    /\ raised.type = "ConnectionError"
    /\ locals.i = 3
    /\ Len(ErrorsPrinted) = 1
    /\ Len(RecordsAppended) = 1
    /\ RecordsAppended[1].type = "email"

-----------------------------------------------------------------------------
(* Histories belong to an instance, registries to the process *)

\* A step of a call that asks `registry` for `key` constructs an object of
\* the class the registry holds under the key now
CreatesFrom(registry, key) ==
    DictHas(registry, key) =>
        /\ Len(constructed') = Len(constructed) + 1
        /\ constructed'[Len(constructed')].class = DictGet(registry, key)

\* C19: a call of process_order or generate_report, made directly or through
\* a facade, changes the history of the instance it is made on and of no
\* other; what register wrote is what the creates of the calls on every
\* instance find, and what the listings return, also for instances that
\* existed before the registration.
C19_HistoriesPerInstanceRegistriesShared ==
    [][ /\ \A s \in NotificationSystems :
              notification_history'[s] # notification_history[s] =>
                  (op' \in ProcessOrderOps /\ args'.self = s)
        /\ \A s \in ReportSystems :
              reports_generated'[s] # reports_generated[s] =>
                  (op' \in GenerateReportOps /\ args'.self = s)
        /\ (op \in ProcessOrderOps /\ pc = "for" /\ locals.i <= Len(args.notification_types))
              => CreatesFrom(notifiers, args.notification_types[locals.i])
        /\ (op \in GenerateReportOps /\ pc = "create_generator")
              => CreatesFrom(generators, args.report_type)
        /\ (op \in GenerateReportOps /\ pc = "create_formatter")
              => CreatesFrom(formatters, args.output_format)
        /\ (op \in GenerateReportOps /\ pc = "create_delivery")
              => CreatesFrom(methods, args.delivery_method)
        /\ op' = "get_available_types" => ret'.value = DictKeys(notifiers)
        /\ op' = "get_available_options" =>
              /\ ret'.value.report_types = DictKeys(generators)
              /\ ret'.value.formats = DictKeys(formatters)
              /\ ret'.value.delivery_methods = DictKeys(methods)
      ]_vars

\* The facade's instance has sent through a notifier registered after both
\* instances existed, and the other instance keeps the record it had
C19_Witness ==
    /\ op = "send_order_notifications"
    /\ pc = "idle"
    /\ args.self = "facade._system"
    /\ args.notification_types = << "telegram", "sms" >>
    /\ DictHas(notifiers, "telegram")
    /\ Len(constructed) = 2
    /\ constructed[1].class = "WhatsAppNotifier"
    /\ Len(notification_history["system"]) = 1
    /\ notification_history["system"] = entry["system"]
    /\ Len(notification_history["facade._system"]) = 2

====
